---- MODULE Spec2Model ----
(***************************************************************************)
(* A model of the AiResearcherAssistant scaffold:                          *)
(*   - KnowledgeBase  (src/src/knowledge_base.py): an in-memory dict of    *)
(*     entries mirrored to one JSON file per entry;                        *)
(*   - AIResearcher   (src/src/main.py): an in-memory dict of research     *)
(*     topics, each with a list of papers and a list of notes.             *)
(* Strings are sequences of one-character strings.  The wall clock is a    *)
(* counter of microsecond ticks that never goes backwards; every call of   *)
(* datetime.now() reads a value not smaller than the previous reading.     *)
(***************************************************************************)
EXTENDS Integers, Sequences, FiniteSets, TLC

VARIABLES
    now,              \* the last reading of the wall clock, in ticks
    entries,          \* KnowledgeBase.entries: entry id -> entry
    order,            \* iteration order of KnowledgeBase.entries (dict order)
    files,            \* <storage_path>/<id>.json: entry id -> JSON document
    research_topics,  \* AIResearcher.research_topics: name -> topic record
    call,             \* the last call made: its name and arguments
    ret               \* what the last call returned or raised

vars == <<now, entries, order, files, research_topics, call, ret>>

----------------------------------------------------------------------------
(* Bounds of the model *)

MaxClock == 2
UsPerSec == 2
MaxEntries == 2
MaxRecords == 2

----------------------------------------------------------------------------
(* The wall clock and its two formats *)

Ticks == 0..MaxClock

\* strftime('%Y%m%d_%H%M%S'): the reading cut to whole seconds
Strftime(t) == t \div UsPerSec

\* datetime.isoformat(): seconds, then the microseconds unless they are zero
IsoFormat(t) ==
    IF t % UsPerSec = 0 THEN <<t \div UsPerSec>>
                        ELSE <<t \div UsPerSec, t % UsPerSec>>

\* the order of two ISO strings as Python compares strings: position by
\* position, a proper prefix being the smaller
RECURSIVE IsoLess(_, _)
IsoLess(a, b) ==
    IF b = <<>> THEN FALSE
    ELSE IF a = <<>> THEN TRUE
    ELSE IF Head(a) # Head(b) THEN Head(a) < Head(b)
    ELSE IsoLess(Tail(a), Tail(b))

IsoLeq(a, b) == a = b \/ IsoLess(a, b)

----------------------------------------------------------------------------
(* Python values used as entry content, and their str() and JSON forms *)

PyStr(s) == [type |-> "str", s |-> s]
PyInt(n) == [type |-> "int", n |-> n]
PyDict(k, v) == [type |-> "dict", key |-> k, value |-> v]

Topics == { <<"E", "t">>, <<"M">> }

Contents ==
    { PyStr(<<"E", "t">>),
      PyDict(PyInt(1), PyStr(<<"m">>)) }

Queries == { <<>>, <<"e", "T">>, <<"M">>, <<"'", "1">> }

\* str.lower() on one character
LowerChar(c) ==
    CASE c = "E" -> "e"
      [] c = "M" -> "m"
      [] c = "T" -> "t"
      [] OTHER -> c

Lower(s) == [i \in 1..Len(s) |-> LowerChar(s[i])]

\* str(n) for a small non-negative integer
Digit(d) ==
    CASE d = 0 -> "0" [] d = 1 -> "1" [] d = 2 -> "2" [] d = 3 -> "3"
      [] d = 4 -> "4" [] d = 5 -> "5" [] d = 6 -> "6" [] d = 7 -> "7"
      [] d = 8 -> "8" [] OTHER -> "9"

RECURSIVE Decimal(_)
Decimal(n) == IF n < 10 THEN <<Digit(n)>> ELSE Decimal(n \div 10) \o <<Digit(n % 10)>>

\* repr() of a string or an integer, as it appears inside str(dict)
Repr(v) ==
    IF v.type = "str" THEN <<"'">> \o v.s \o <<"'">> ELSE Decimal(v.n)

\* str(content)
Str(v) ==
    IF v.type = "str" THEN v.s
    ELSE <<"{">> \o Repr(v.key) \o <<":", " ">> \o Repr(v.value) \o <<"}">>

\* q in s: q occurs in s as a contiguous substring
Contains(s, q) ==
    \E i \in 0..(Len(s) - Len(q)) : \A j \in 1..Len(q) : s[i + j] = q[j]

\* json.dump of a content value: an object's keys are always strings, an
\* integer key is written as its decimal digits
JsonString(s) == [json |-> "string", s |-> s]
JsonObject(k, v) == [json |-> "object", key |-> k, value |-> v]

JsonKey(k) == IF k.type = "str" THEN k.s ELSE Decimal(k.n)

ToJson(v) ==
    IF v.type = "str" THEN JsonString(v.s)
    ELSE JsonObject(JsonKey(v.key), JsonString(v.value.s))

\* json.load of a JSON value: every object key comes back as a string
FromJson(j) ==
    IF j.json = "string" THEN PyStr(j.s)
    ELSE PyDict(PyStr(j.key), PyStr(j.value.s))

----------------------------------------------------------------------------
(* KnowledgeBase *)

None == [none |-> TRUE]

EntryId(topic, t) == [topic |-> topic, stamp |-> Strftime(t)]

EntryIds == { EntryId(topic, t) : topic \in Topics, t \in Ticks }

\* the two readings stored the wrong way round
NewEntry_swapped(topic, content, t2, t3) ==
    [topic |-> topic, content |-> content,
     created_at |-> IsoFormat(t3), last_modified |-> IsoFormat(t2)]

\* the dict literal of add_entry; t2 and t3 are the two clock readings
NewEntry(topic, content, t2, t3) ==
    [topic |-> topic, content |-> content,
     created_at |-> IsoFormat(t2), last_modified |-> IsoFormat(t3)]

\* self.entries[entry_id] = entry
SetItem(d, k, v) == [i \in DOMAIN d \cup {k} |-> IF i = k THEN v ELSE d[i]]

\* the iteration order of the dict after self.entries[entry_id] = entry
OrderAfterSet(id) == IF id \in DOMAIN entries THEN order ELSE Append(order, id)

\* json.dump(self.entries[entry_id], f, indent=2)
JsonDump(e) ==
    [topic |-> JsonString(e.topic), content |-> ToJson(e.content),
     created_at |-> JsonString(e.created_at),
     last_modified |-> JsonString(e.last_modified)]

\* json.load(f)
JsonLoad(doc) ==
    [topic |-> doc.topic.s, content |-> FromJson(doc.content),
     created_at |-> doc.created_at.s, last_modified |-> doc.last_modified.s]

\* _save_entry: the files after writing entry e to <id>.json
SaveEntry(id, e) == SetItem(files, id, JsonDump(e))

\* _load_entry
LoadEntry(id) == IF id \in DOMAIN files THEN JsonLoad(files[id]) ELSE None

\* get_entry: self.entries.get(entry_id)
GetEntry(id) == IF id \in DOMAIN entries THEN entries[id] ELSE None

\* a search that also looks into the topic
Matches_topic(query, entry) ==
    \/ Contains(Lower(Str(entry.content)), Lower(query))
    \/ Contains(Lower(entry.topic), Lower(query))

\* the test of search's loop body
Matches(query, entry) == Contains(Lower(Str(entry.content)), Lower(query))

\* one result of search: {"id": entry_id, **entry}
Result(id) ==
    [id |-> id, topic |-> entries[id].topic, content |-> entries[id].content,
     created_at |-> entries[id].created_at,
     last_modified |-> entries[id].last_modified]

\* search's loop over self.entries.items(), from position i on
RECURSIVE SearchFrom(_, _)
SearchFrom(query, i) ==
    IF i > Len(order) THEN <<>>
    ELSE IF Matches(query, entries[order[i]])
         THEN <<Result(order[i])>> \o SearchFrom(query, i + 1)
         ELSE SearchFrom(query, i + 1)

Search(query) == SearchFrom(query, 1)

add_entry(topic, content) ==
    \E t1 \in Ticks, t2 \in Ticks, t3 \in Ticks :
        /\ now <= t1 /\ t1 <= t2 /\ t2 <= t3
        /\ LET id == EntryId(topic, t1)
               e == NewEntry(topic, content, t2, t3)
           IN /\ id \in DOMAIN entries \/ Len(order) < MaxEntries
              /\ entries' = SetItem(entries, id, e)
              /\ order' = OrderAfterSet(id)
              /\ files' = SaveEntry(id, e)
              /\ call' = [op |-> "add_entry", topic |-> topic, content |-> content]
              /\ ret' = [id |-> id]
        /\ now' = t3
        /\ UNCHANGED research_topics

get_entry(id) ==
    /\ call' = [op |-> "get_entry", id |-> id]
    /\ ret' = [entry |-> GetEntry(id)]
    /\ UNCHANGED <<now, entries, order, files, research_topics>>

\* an update that forgets to bump last_modified
Updated_stale(e, content, t) == [e EXCEPT !.content = content]

\* the entry after update_entry's two assignments; t is the clock reading
Updated(e, content, t) ==
    [e EXCEPT !.content = content, !.last_modified = IsoFormat(t)]

\* an update that saves before it checks the id
update_entry_saves(id, content) ==
    /\ call' = [op |-> "update_entry", id |-> id, content |-> content]
    /\ IF id \notin DOMAIN entries
       THEN /\ ret' = [ok |-> FALSE]
            /\ files' = SaveEntry(id, NewEntry(id.topic, content, now, now))
            /\ UNCHANGED <<now, entries, order, research_topics>>
       ELSE \E t \in Ticks :
            /\ now <= t
            /\ entries' = [entries EXCEPT ![id] = Updated(entries[id], content, t)]
            /\ files' = SaveEntry(id, Updated(entries[id], content, t))
            /\ now' = t
            /\ ret' = [ok |-> TRUE]
            /\ UNCHANGED <<order, research_topics>>

update_entry(id, content) ==
    /\ call' = [op |-> "update_entry", id |-> id, content |-> content]
    /\ IF id \notin DOMAIN entries
       THEN /\ ret' = [ok |-> FALSE]
            /\ UNCHANGED <<now, entries, order, files, research_topics>>
       ELSE \E t \in Ticks :
            /\ now <= t
            /\ entries' = [entries EXCEPT ![id] = Updated(entries[id], content, t)]
            /\ files' = SaveEntry(id, Updated(entries[id], content, t))
            /\ now' = t
            /\ ret' = [ok |-> TRUE]
            /\ UNCHANGED <<order, research_topics>>

search(query) ==
    /\ call' = [op |-> "search", query |-> query]
    /\ ret' = [results |-> Search(query)]
    /\ UNCHANGED <<now, entries, order, files, research_topics>>

load_entry(id) ==
    /\ call' = [op |-> "_load_entry", id |-> id]
    /\ ret' = [entry |-> LoadEntry(id)]
    /\ UNCHANGED <<now, entries, order, files, research_topics>>

----------------------------------------------------------------------------
(* AIResearcher *)

Names == { "AI Ethics", "ML" }

Descriptions == { "d1", "d2" }

\* paper_info dicts; the second one carries its own "added_at" key
PaperInfos == { [title |-> "p1"], [title |-> "p2", added_at |-> 0] }

Notes == { "n1" }

\* the dict literal of add_research_topic; t is the clock reading
NewTopic(description, t) ==
    [description |-> description, created_at |-> t,
     papers |-> <<>>, notes |-> <<>>]

\* {**paper_info, "added_at": datetime.now()}
PaperRecord(paper_info, t) ==
    [k \in DOMAIN paper_info \cup {"added_at"} |->
        IF k = "added_at" THEN t ELSE paper_info[k]]

\* {"content": note, "created_at": datetime.now()}
NoteRecord(note, t) == [content |-> note, created_at |-> t]

RECURSIVE SumRecords(_)
SumRecords(S) ==
    IF S = {} THEN 0
    ELSE LET n == CHOOSE x \in S : TRUE
         IN Len(research_topics[n].papers) + Len(research_topics[n].notes)
            + SumRecords(S \ {n})

\* the number of paper and note records held, over all topics
TotalRecords == SumRecords(DOMAIN research_topics)

\* what a call of add_research_topic finds under its key: history only, the
\* numbers of papers and notes held by the record it is about to overwrite
Found(topic) ==
    IF topic \in DOMAIN research_topics
    THEN [papers |-> Len(research_topics[topic].papers),
          notes |-> Len(research_topics[topic].notes)]
    ELSE None

\* setdefault instead of assignment: an existing record keeps its lists
ReplaceTopic_keep(topic, description, t) ==
    IF topic \in DOMAIN research_topics
    THEN [research_topics EXCEPT ![topic].description = description]
    ELSE SetItem(research_topics, topic, NewTopic(description, t))

\* the research_topics[topic] = {...} of add_research_topic
ReplaceTopic(topic, description, t) ==
    SetItem(research_topics, topic, NewTopic(description, t))

add_research_topic(topic, description) ==
    \E t \in Ticks :
        /\ now <= t
        /\ research_topics' = ReplaceTopic(topic, description, t)
        /\ now' = t
        /\ call' = [op |-> "add_research_topic", topic |-> topic,
                    description |-> description, found |-> Found(topic)]
        /\ ret' = None
        /\ UNCHANGED <<entries, order, files>>

\* insert(0, r) instead of append(r)
AppendPaper_front(topic, r) ==
    [research_topics EXCEPT ![topic].papers = <<r>> \o @]

\* research_topics after research_topics[topic]["papers"].append(r)
AppendPaper(topic, r) ==
    [research_topics EXCEPT ![topic].papers = Append(@, r)]

\* the list assigned instead of appended to
AppendNote_assign(topic, r) ==
    [research_topics EXCEPT ![topic].notes = <<r>>]

\* research_topics after research_topics[topic]["notes"].append(r)
AppendNote(topic, r) ==
    [research_topics EXCEPT ![topic].notes = Append(@, r)]

add_paper(topic, paper_info) ==
    /\ call' = [op |-> "add_paper", topic |-> topic, paper_info |-> paper_info]
    /\ IF topic \notin DOMAIN research_topics
       THEN /\ ret' = [raised |-> "ValueError"]
            /\ UNCHANGED <<now, entries, order, files, research_topics>>
       ELSE \E t \in Ticks :
            /\ now <= t
            /\ TotalRecords < MaxRecords
            /\ research_topics' = AppendPaper(topic, PaperRecord(paper_info, t))
            /\ now' = t
            /\ ret' = None
            /\ UNCHANGED <<entries, order, files>>

add_note(topic, note) ==
    /\ call' = [op |-> "add_note", topic |-> topic, note |-> note]
    /\ IF topic \notin DOMAIN research_topics
       THEN /\ ret' = [raised |-> "ValueError"]
            /\ UNCHANGED <<now, entries, order, files, research_topics>>
       ELSE \E t \in Ticks :
            /\ now <= t
            /\ TotalRecords < MaxRecords
            /\ research_topics' = AppendNote(topic, NoteRecord(note, t))
            /\ now' = t
            /\ ret' = None
            /\ UNCHANGED <<entries, order, files>>

----------------------------------------------------------------------------
(* The KnowledgeBase specification *)

Init ==
    /\ now = 0
    /\ entries = <<>>
    /\ order = <<>>
    /\ files = <<>>
    /\ research_topics = <<>>
    /\ call = [op |-> "__init__"]
    /\ ret = None

NextKB ==
    \/ \E topic \in Topics, content \in Contents : add_entry(topic, content)
    \/ \E id \in EntryIds : get_entry(id)
    \/ \E id \in EntryIds, content \in Contents : update_entry(id, content)
    \/ \E query \in Queries : search(query)
    \/ \E id \in EntryIds : load_entry(id)

Spec == Init /\ [][NextKB]_vars

----------------------------------------------------------------------------
(* The AIResearcher specification *)

NextRT ==
    \/ \E topic \in Names, description \in Descriptions :
          add_research_topic(topic, description)
    \/ \E topic \in Names, paper_info \in PaperInfos : add_paper(topic, paper_info)
    \/ \E topic \in Names, note \in Notes : add_note(topic, note)

SpecRT == Init /\ [][NextRT]_vars

----------------------------------------------------------------------------
(* Claims about KnowledgeBase, checked under Spec *)

IsPrefix(a, b) == Len(a) <= Len(b) /\ SubSeq(b, 1, Len(a)) = a

\* the step just taken was update_entry on an id the store did not hold
UpdateOfUnknown == call'.op = "update_entry" /\ call'.id \notin DOMAIN entries

\* the step just taken was update_entry on an id the store held
UpdateOfKnown == call'.op = "update_entry" /\ call'.id \in DOMAIN entries

\* the step just taken was get_entry on the id the previous add_entry returned
GetAfterAdd ==
    call.op = "add_entry" /\ call'.op = "get_entry" /\ call'.id = ret.id

(* C1: add_entry(topic, content) followed immediately by get_entry on the    *)
(* returned id yields an entry with the input content, the input topic, and  *)
(* created_at equal to last_modified.                                        *)
C1_AddThenGet ==
    [][GetAfterAdd =>
         /\ ret'.entry # None
         /\ ret'.entry.content = call.content
         /\ ret'.entry.topic = call.topic
         /\ ret'.entry.created_at = ret'.entry.last_modified]_vars

\* the part of C1 that does not depend on the clock: content and topic
C1_ContentAndTopic ==
    [][GetAfterAdd =>
         /\ ret'.entry # None
         /\ ret'.entry.content = call.content
         /\ ret'.entry.topic = call.topic]_vars

(* C2: update_entry on an id that is not a key of the store returns False    *)
(* and changes nothing: not the ids, not an entry, not a file.               *)
C2_UpdateUnknown ==
    [][UpdateOfUnknown =>
         /\ ret' = [ok |-> FALSE]
         /\ entries' = entries
         /\ order' = order
         /\ files' = files]_vars

\* update_entry has returned False while the store holds an entry and a file
C2_Witness ==
    /\ call.op = "update_entry"
    /\ ret.ok = FALSE
    /\ call.id \notin DOMAIN entries
    /\ DOMAIN entries # {}
    /\ DOMAIN files = DOMAIN entries

(* C3, as stated: update_entry on an existing entry returns True, replaces   *)
(* the content, and sets last_modified strictly later than it was.           *)
C3_StrictlyLater ==
    [][UpdateOfKnown =>
         /\ ret' = [ok |-> TRUE]
         /\ entries'[call'.id].content = call'.content
         /\ IsoLess(entries[call'.id].last_modified,
                    entries'[call'.id].last_modified)]_vars

(* C3, amended: update_entry on an existing entry returns True, replaces the *)
(* content, and sets last_modified to the clock reading of the call, which   *)
(* (the clock not going backwards) is later than or equal to what it was.    *)
C3_NotEarlier ==
    [][UpdateOfKnown =>
         /\ ret' = [ok |-> TRUE]
         /\ entries'[call'.id].content = call'.content
         /\ entries'[call'.id].last_modified = IsoFormat(now')
         /\ IsoLeq(entries[call'.id].last_modified,
                   entries'[call'.id].last_modified)]_vars

\* update_entry has returned True and the entry carries the new content and
\* a last_modified later than its created_at
C3_Witness ==
    /\ call.op = "update_entry"
    /\ ret.ok = TRUE
    /\ entries[call.id].content = call.content
    /\ entries[call.id].last_modified = IsoFormat(now)
    /\ IsoLess(entries[call.id].created_at, entries[call.id].last_modified)

(* C7: every entry's last_modified is greater than or equal to its           *)
(* created_at, the wall clock never going backwards.                         *)
C7_ModifiedNotBeforeCreated ==
    \A id \in DOMAIN entries :
        IsoLeq(entries[id].created_at, entries[id].last_modified)

\* two entries, one of them with last_modified strictly after created_at and
\* one written with whole-second stamps
C7_Witness ==
    /\ Cardinality(DOMAIN entries) = 2
    /\ \E id \in DOMAIN entries :
          IsoLess(entries[id].created_at, entries[id].last_modified)
    /\ \E id \in DOMAIN entries : Len(entries[id].created_at) = 1

(* C8: for every id of the store, _load_entry(id) returns a record with the  *)
(* same topic, content, created_at and last_modified as the in-memory entry; *)
(* and _load_entry of an id with no file returns None.                       *)
C8_RoundTrip ==
    /\ \A id \in DOMAIN entries : LoadEntry(id) = entries[id]
    /\ \A id \in EntryIds \ DOMAIN files : LoadEntry(id) = None

\* the part of C8 that holds: topic and both timestamps survive the round
\* trip, and so does content that is a string
C8_RoundTripOfStrings ==
    \A id \in DOMAIN entries :
        /\ id \in DOMAIN files
        /\ LoadEntry(id).topic = entries[id].topic
        /\ LoadEntry(id).created_at = entries[id].created_at
        /\ LoadEntry(id).last_modified = entries[id].last_modified
        /\ entries[id].content.type = "str" =>
               LoadEntry(id).content = entries[id].content

\* the position of an id in the store's iteration order
Position(id) == CHOOSE i \in 1..Len(order) : order[i] = id

\* the content of entry id, as a lowercased string, contains the lowercased q
Hit(id, q) == Contains(Lower(Str(entries[id].content)), Lower(q))

\* the results r are exactly the entries that hit q, once each, in store order
ExactResults(r, q) ==
    /\ \A i \in 1..Len(r) :
          /\ r[i].id \in DOMAIN entries
          /\ Hit(r[i].id, q)
          /\ r[i].topic = entries[r[i].id].topic
          /\ r[i].content = entries[r[i].id].content
          /\ r[i].created_at = entries[r[i].id].created_at
          /\ r[i].last_modified = entries[r[i].id].last_modified
    /\ \A id \in DOMAIN entries :
          Hit(id, q) => \E i \in 1..Len(r) : r[i].id = id
    /\ \A i, j \in 1..Len(r) :
          i < j => Position(r[i].id) < Position(r[j].id)

(* C9: search(query) returns exactly the entries whose content, as a         *)
(* lowercased string, contains the lowercased query: each once, in the       *)
(* store's order, a match in the topic alone not counting; and search        *)
(* changes neither the store nor a file.                                     *)
C9_Search ==
    [][call'.op = "search" =>
         /\ ExactResults(ret'.results, call'.query)
         /\ entries' = entries
         /\ order' = order
         /\ files' = files]_vars

\* a search over two entries that returned one of them and left out one whose
\* topic alone contains the query
C9_Witness ==
    /\ call.op = "search"
    /\ Len(order) = 2
    /\ Len(ret.results) = 1
    /\ \E id \in DOMAIN entries :
          /\ Contains(Lower(entries[id].topic), Lower(call.query))
          /\ \A i \in 1..Len(ret.results) : ret.results[i].id # id

(* C10: once an id is in the store it stays, its topic and created_at never  *)
(* change, and its content and last_modified change only through             *)
(* update_entry on that id.                                                  *)
C10_StableIdentity ==
    [][\A id \in DOMAIN entries :
         /\ id \in DOMAIN entries'
         /\ entries'[id].topic = entries[id].topic
         /\ entries'[id].created_at = entries[id].created_at
         /\ (\/ entries'[id].content # entries[id].content
             \/ entries'[id].last_modified # entries[id].last_modified)
            => (call'.op = "update_entry" /\ call'.id = id)]_vars

\* the part of C10 that holds: the id stays and keeps its topic, and
\* update_entry leaves created_at alone
C10_StablePart ==
    [][\A id \in DOMAIN entries :
         /\ id \in DOMAIN entries'
         /\ entries'[id].topic = entries[id].topic
         /\ call'.op # "add_entry" =>
               entries'[id].created_at = entries[id].created_at]_vars

----------------------------------------------------------------------------
(* Claims about AIResearcher, checked under SpecRT *)

\* every topic other than name is as it was, and no topic came or went
OthersUnchanged(name) ==
    /\ DOMAIN research_topics' = DOMAIN research_topics \cup {name}
    /\ \A other \in DOMAIN research_topics \ {name} :
          research_topics'[other] = research_topics[other]

\* list b is list a with exactly one record added at its end
OneAppended(a, b) == Len(b) = Len(a) + 1 /\ SubSeq(b, 1, Len(a)) = a

(* C4: add_paper and add_note raise ValueError on a topic that is not a key  *)
(* of research_topics and leave research_topics unchanged; on a topic that   *)
(* is present they append exactly one record at the end of its papers        *)
(* (respectively notes) list and change nothing else.                        *)
C4_AddPaperAddNote ==
    [][call'.op \in {"add_paper", "add_note"} =>
         LET name == call'.topic IN
         IF name \notin DOMAIN research_topics
         THEN /\ ret' = [raised |-> "ValueError"]
              /\ research_topics' = research_topics
         ELSE LET old == research_topics[name]
                  new == research_topics'[name]
              IN /\ ret' = None
                 /\ OthersUnchanged(name)
                 /\ new.description = old.description
                 /\ new.created_at = old.created_at
                 /\ IF call'.op = "add_paper"
                    THEN /\ OneAppended(old.papers, new.papers)
                         /\ new.notes = old.notes
                         /\ \A k \in DOMAIN call'.paper_info \ {"added_at"} :
                               new.papers[Len(new.papers)][k] = call'.paper_info[k]
                         /\ new.papers[Len(new.papers)].added_at = now'
                    ELSE /\ OneAppended(old.notes, new.notes)
                         /\ new.papers = old.papers
                         /\ new.notes[Len(new.notes)].content = call'.note
                         /\ new.notes[Len(new.notes)].created_at = now'
      ]_vars

\* add_paper has returned after appending a second, different paper to a
\* topic, next to another topic
C4_Witness ==
    /\ call.op = "add_paper"
    /\ ret = None
    /\ Cardinality(DOMAIN research_topics) = 2
    /\ Len(research_topics[call.topic].papers) = 2
    /\ research_topics[call.topic].papers[1] # research_topics[call.topic].papers[2]

(* C5: add_research_topic on a name that already exists, after any number of *)
(* add_paper and add_note calls on it, replaces the record: its papers and   *)
(* notes are empty, its description is the new one, no other topic changes.  *)
C5_Replace ==
    [][(call'.op = "add_research_topic" /\ call'.topic \in DOMAIN research_topics) =>
         /\ research_topics'[call'.topic].papers = <<>>
         /\ research_topics'[call'.topic].notes = <<>>
         /\ research_topics'[call'.topic].description = call'.description
         /\ OthersUnchanged(call'.topic)]_vars

\* add_research_topic has replaced a record that held a paper and a note
C5_Witness ==
    /\ call.op = "add_research_topic"
    /\ call.found # None
    /\ call.found.papers >= 1
    /\ call.found.notes >= 1
    /\ research_topics[call.topic].papers = <<>>
    /\ research_topics[call.topic].notes = <<>>

(* C6, as stated: across add_research_topic, add_paper and add_note the      *)
(* papers list and the notes list of every topic never get shorter and keep  *)
(* the records they hold.                                                    *)
C6_OnlyGrow ==
    [][\A name \in DOMAIN research_topics :
         /\ name \in DOMAIN research_topics'
         /\ IsPrefix(research_topics[name].papers, research_topics'[name].papers)
         /\ IsPrefix(research_topics[name].notes, research_topics'[name].notes)
      ]_vars

(* C6, amended: a topic is never removed, and its papers list and its notes  *)
(* list never get shorter and keep the records they hold across add_paper,   *)
(* add_note and add_research_topic of another name; add_research_topic of    *)
(* the topic's own name empties both lists.                                  *)
C6_GrowUntilReplaced ==
    [][\A name \in DOMAIN research_topics :
         /\ name \in DOMAIN research_topics'
         /\ IF call'.op = "add_research_topic" /\ call'.topic = name
            THEN /\ research_topics'[name].papers = <<>>
                 /\ research_topics'[name].notes = <<>>
            ELSE /\ IsPrefix(research_topics[name].papers,
                             research_topics'[name].papers)
                 /\ IsPrefix(research_topics[name].notes,
                             research_topics'[name].notes)
      ]_vars

\* add_note has returned after appending a second note to a topic
C6_Witness ==
    /\ call.op = "add_note"
    /\ ret = None
    /\ Len(research_topics[call.topic].notes) = 2
    /\ research_topics[call.topic].notes[1] # research_topics[call.topic].notes[2]

====
